---- MODULE Spec2Model ----
(***************************************************************************)
(* A model of auth_backends/adfs/turku.py: the TurkuADFS SAML backend.     *)
(* The state is the wall clock, the remote metadata endpoint, the shared   *)
(* Django cache, the ENABLED_IDPS setting, the current backend instance    *)
(* (its cached_property slot) and a record of the last call and its        *)
(* outcome.  Python values are modelled as tagged records, exceptions as   *)
(* outcome names.                                                          *)
(***************************************************************************)
EXTENDS Integers, Sequences, FiniteSets, TLC

VARIABLES
    now,       \* datetime.utcnow(), in seconds
    remote,    \* the endpoint at metadata_url: whether it answers, and the
               \* signing certificates of the document it serves
    cache,     \* the Django cache entry under cache_key
    origin,    \* the time of the remote fetch the cache entry stems from, or -1
    settings,  \* the ENABLED_IDPS setting
    memo,      \* the instance's slot for the cached_property remote_metadata
    inst,      \* the calls, cache reads and remote fetches of the instance
    last       \* the last call: its arguments, outcome, value and reads

vars == <<now, remote, cache, origin, settings, memo, inst, last>>

-----------------------------------------------------------------------------
(* Bounds of the model *)

\* the clock advances in steps of TickSeconds, MaxTicks times at most
MaxTicks == 4
\* longest list of signing certificates in a metadata document
MaxCerts == 2
\* calls made on one backend instance
MaxCalls == 2

TickSeconds == 12 * 3600

-----------------------------------------------------------------------------
(* Program constants *)

name == "turku_adfs"
metadata_url == "https://sts.turku.fi/federationmetadata/2007-06/federationmetadata.xml"

\* timeout=24 * 3600 of cache.set
CACHE_TIMEOUT == 24 * 3600

\* cache_key = '%s-idp-metadata' % self.name
cache_key == "turku_adfs-idp-metadata"

ATTR_USER_PERMANENT_ID == "http://schemas.microsoft.com/ws/2013/11/alternateloginid"
ATTR_EMAIL == "http://schemas.xmlsoap.org/ws/2005/05/identity/claims/emailaddress"

\* the five idp_config[...] assignments of get_idp
IdpAttrs ==
    [attr_user_permanent_id |-> ATTR_USER_PERMANENT_ID,
     attr_email |-> ATTR_EMAIL,
     attr_full_name |-> "http://schemas.xmlsoap.org/claims/CommonName",
     attr_first_name |-> "http://schemas.xmlsoap.org/ws/2005/05/identity/claims/givenname",
     attr_last_name |-> "http://schemas.xmlsoap.org/ws/2005/05/identity/claims/surname"]

\* the names bound at module level: the imports, logger and the two classes
ModuleGlobals ==
    {"base64", "logging", "json", "datetime", "x509", "default_backend", "cache",
     "cached_property", "_", "OneLogin_Saml2_IdPMetadataParser", "SAMLAuth",
     "SAMLIdentityProvider", "FriendlySocialAuthException", "logger",
     "NoAssociatedOID", "TurkuADFS"}

\* class NoAssociatedOID(FriendlySocialAuthException): the only friendly error here
FriendlyErrors == {"NoAssociatedOID"}

None == [t |-> "none", s |-> "", items |-> <<>>]

Str(x) == [t |-> "str", s |-> x, items |-> <<>>]

\* the element of a one-element set: {F(x) : x \in {e}} binds x to the value
\* of e, the way a local variable holds the result of a call
Only(S) == CHOOSE x \in S : TRUE

-----------------------------------------------------------------------------
(* The environment: X.509 certificates, the metadata endpoint, json, cache *)

\* the base64 certificate strings that occur in metadata documents
CertStrings == {"certA", "certB", "certC"}

\* what the X.509 parser reads out of a certificate string: its validity
\* period, in seconds of the model clock.  certA expires after the first
\* tick, certB is valid throughout, certC becomes valid at the second tick.
CertInfo ==
    [b \in CertStrings |->
        CASE b = "certA" -> [not_valid_before |-> 0, not_valid_after |-> TickSeconds]
          [] b = "certB" -> [not_valid_before |-> 0, not_valid_after |-> 1000 * TickSeconds]
          [] b = "certC" -> [not_valid_before |-> 2 * TickSeconds,
                             not_valid_after |-> 1000 * TickSeconds]]

\* the call load_pem_x509_certificate(cert_b64.encode('utf-8'), default_backend()):
\* the name is looked up in the module's globals when the call is made, and
\* the module binds x509 and default_backend but not this name
load_pem_x509_certificate(cert_b64) ==
    IF "load_pem_x509_certificate" \in ModuleGlobals
    THEN [outcome |-> "return", cert |-> CertInfo[cert_b64]]
    ELSE [outcome |-> "NameError", cert |-> CertInfo[cert_b64]]

RECURSIVE SeqsUpTo(_, _)
SeqsUpTo(S, n) ==
    IF n = 0 THEN {<<>>}
    ELSE LET shorter == SeqsUpTo(S, n - 1)
         IN  shorter \cup {Append(q, x) : q \in shorter, x \in S}

SigningLists == SeqsUpTo(CertStrings, MaxCerts)

\* the states of the metadata endpoint: unreachable, or serving a document
\* with some list of signing certificates
RemoteStates == [up : BOOLEAN, signing : SigningLists]

\* OneLogin_Saml2_IdPMetadataParser.parse_remote(self.metadata_url), the
\* endpoint being up: the parsed settings dict
parse_remote(url, rem) ==
    [idp |-> [entityId |-> "http://sts.turku.fi/adfs/services/trust",
              singleSignOnService |-> [url |-> "https://sts.turku.fi/adfs/ls/"],
              x509certMulti |-> [signing |-> rem.signing,
                                 encryption |-> <<"certB">>]]]

\* json.dumps(idp_config): the document as text, here its sequence of tokens
json_dumps(idp_config) ==
    [text |-> <<"idp", "entityId", idp_config.idp.entityId,
                "singleSignOnService", "url", idp_config.idp.singleSignOnService.url,
                "x509certMulti", "signing", idp_config.idp.x509certMulti.signing,
                "encryption", idp_config.idp.x509certMulti.encryption>>]

\* json.loads(cached_metadata)
json_loads(doc) ==
    [idp |-> [entityId |-> doc.text[3],
              singleSignOnService |-> [url |-> doc.text[6]],
              x509certMulti |-> [signing |-> doc.text[9],
                                 encryption |-> doc.text[11]]]]

\* what cache.get returns for a missing or expired key
NoText == [text |-> <<>>]

\* the cache, as far as this backend uses it: the one entry it reads and writes
EmptyCache == [key |-> cache_key, present |-> FALSE, value |-> NoText, expires |-> 0]

\* django.core.cache: cache.get(key) at time t
cache_get(c, key, t) ==
    IF key = c.key /\ c.present /\ t < c.expires THEN c.value ELSE NoText

\* django.core.cache: cache.set(key, value, timeout=timeout) at time t
cache_set(c, key, value, timeout, t) ==
    [key |-> key, present |-> TRUE, value |-> value, expires |-> t + timeout]

-----------------------------------------------------------------------------
(* TurkuADFS.find_valid_certificates *)

\* the for loop over idp['x509certMulti']['signing'], from index i on
RECURSIVE CertLoop(_, _, _, _)
CertLoop(signing, i, certificates, t) ==
    IF i > Len(signing) THEN [outcome |-> "return", certificates |-> certificates]
    ELSE LET loaded == load_pem_x509_certificate(signing[i])
         IN  IF loaded.outcome # "return"
             THEN [outcome |-> loaded.outcome, certificates |-> certificates]
             ELSE IF t < loaded.cert.not_valid_before
                  THEN CertLoop(signing, i + 1, certificates, t)
                  ELSE CertLoop(signing, i + 1, Append(certificates, signing[i]), t)

\* find_valid_certificates(self, idp) called at time t: the outcome, the
\* returned dict and the idp dict as the call leaves it
find_valid_certificates(idp, t) ==
    Only({ IF loop.outcome # "return"
           THEN [outcome |-> loop.outcome,
                 value |-> [signing |-> <<>>, encryption |-> <<>>], idp |-> idp]
           ELSE IF loop.certificates = <<>>
           THEN [outcome |-> "Exception",
                 value |-> [signing |-> <<>>, encryption |-> <<>>], idp |-> idp]
           ELSE [outcome |-> "return",
                 value |-> [signing |-> loop.certificates,
                            encryption |-> idp.x509certMulti.encryption],
                 idp |-> [idp EXCEPT !.x509certMulti.signing = loop.certificates]]
         : loop \in {CertLoop(idp.x509certMulti.signing, 1, <<>>, t)} })

-----------------------------------------------------------------------------
(* TurkuADFS.remote_metadata *)

\* a dict without attr_* keys
NoAttrs == [k \in {} |-> ""]

NoConf ==
    [entity_id |-> "", url |-> "",
     x509certMulti |-> [signing |-> <<>>, encryption |-> <<>>], attrs |-> NoAttrs]

NoMemo == [set |-> FALSE, value |-> NoConf]

\* remote_metadata_tail with cache.set moved up, ahead of the call of
\* find_valid_certificates
remote_metadata_tail_set_first(idp_config, hit, c, orig, t) ==
    Only({ [outcome |-> found.outcome,
            value |-> IF found.outcome # "return" THEN NoConf
                      ELSE [entity_id |-> idp_config.idp.entityId,
                            url |-> idp_config.idp.singleSignOnService.url,
                            x509certMulti |-> found.value,
                            attrs |-> NoAttrs],
            cache |-> cache_set(c, cache_key, json_dumps(idp_config), CACHE_TIMEOUT, t),
            origin |-> IF hit THEN orig ELSE t,
            cacheReads |-> 1, fetches |-> IF hit THEN 0 ELSE 1]
         : found \in {find_valid_certificates(idp_config.idp, t)} })

\* the body of the remote_metadata property from idp = idp_config['idp'] on,
\* hit telling whether idp_config came from the cache
remote_metadata_tail(idp_config, hit, c, orig, t) ==
    Only({ IF found.outcome # "return"
           THEN [outcome |-> found.outcome, value |-> NoConf, cache |-> c,
                 origin |-> orig, cacheReads |-> 1, fetches |-> IF hit THEN 0 ELSE 1]
           ELSE [outcome |-> "return",
                 value |-> [entity_id |-> idp_config.idp.entityId,
                            url |-> idp_config.idp.singleSignOnService.url,
                            x509certMulti |-> found.value,
                            attrs |-> NoAttrs],
                 cache |-> cache_set(c, cache_key,
                                     json_dumps([idp_config EXCEPT !.idp = found.idp]),
                                     CACHE_TIMEOUT, t),
                 origin |-> IF hit THEN orig ELSE t,
                 cacheReads |-> 1, fetches |-> IF hit THEN 0 ELSE 1]
         : found \in {find_valid_certificates(idp_config.idp, t)} })

\* the body of the remote_metadata property, run at time t against the cache
\* c and the endpoint rem; orig is the time of the remote fetch the cache
\* entry stems from
remote_metadata_body(c, orig, rem, t) ==
    Only({ IF cached_metadata # NoText
           THEN remote_metadata_tail(json_loads(cached_metadata), TRUE, c, orig, t)
           ELSE IF ~rem.up
           THEN [outcome |-> "RemoteError", value |-> NoConf, cache |-> c, origin |-> orig,
                 cacheReads |-> 1, fetches |-> 1]
           ELSE remote_metadata_tail(parse_remote(metadata_url, rem), FALSE, c, orig, t)
         : cached_metadata \in {cache_get(c, cache_key, t)} })

\* self.remote_metadata, a cached_property: the body runs unless the
\* instance already holds a value, and only a returned value is kept
remote_metadata(m, c, orig, rem, t) ==
    IF m.set
    THEN [outcome |-> "return", value |-> m.value, memo |-> m, cache |-> c,
          origin |-> orig, cacheReads |-> 0, fetches |-> 0]
    ELSE Only({ [outcome |-> b.outcome, value |-> b.value,
                 memo |-> IF b.outcome = "return"
                          THEN [set |-> TRUE, value |-> b.value] ELSE m,
                 cache |-> b.cache, origin |-> b.origin,
                 cacheReads |-> b.cacheReads, fetches |-> b.fetches]
              : b \in {remote_metadata_body(c, orig, rem, t)} })

-----------------------------------------------------------------------------
(* TurkuADFS.get_idp, get_allowed_idp_name, get_user_id, is_email_needed *)

NoProvider == [name |-> "", conf |-> NoConf]

NoReads == [settings |-> 0, cache |-> 0, remote |-> 0]

\* f with the keys of g set to g's values, as item assignment on a dict does
SetItems(f, g) == [k \in DOMAIN f \cup DOMAIN g |-> IF k \in DOMAIN g THEN g[k] ELSE f[k]]

\* the five idp_config['attr_...'] = ... assignments of get_idp
WithIdpAttrs(idp_config) == [idp_config EXCEPT !.attrs = SetItems(@, IdpAttrs)]

\* NameAllowed with the comparison of the elif inverted
NameAllowedInverted(idp_name) == idp_name = None \/ ~(idp_name = Str(name))

\* the test get_idp opens with: no name, or the name of this backend
NameAllowed(idp_name) == idp_name = None \/ ~(idp_name # Str(name))

\* get_idp(self, idp_name) at time t: the outcome, the SAMLIdentityProvider
\* returned, the state the call leaves and the reads it made
get_idp(idp_name, set, m, c, orig, rem, t) ==
    IF ~NameAllowed(idp_name)
    THEN [outcome |-> "Exception", provider |-> NoProvider, settings |-> set, memo |-> m,
          cache |-> c, origin |-> orig, reads |-> NoReads]
    ELSE IF ~set.enabled
    THEN Only({ IF rm.outcome # "return"
                THEN [outcome |-> rm.outcome, provider |-> NoProvider, settings |-> set,
                      memo |-> rm.memo, cache |-> rm.cache, origin |-> rm.origin,
                      reads |-> [settings |-> 1, cache |-> rm.cacheReads,
                                 remote |-> rm.fetches]]
                ELSE [outcome |-> "return",
                      provider |-> [name |-> name, conf |-> WithIdpAttrs(rm.value)],
                      settings |-> set,
                      memo |-> [set |-> TRUE, value |-> WithIdpAttrs(rm.value)],
                      cache |-> rm.cache, origin |-> rm.origin,
                      reads |-> [settings |-> 1, cache |-> rm.cacheReads,
                                 remote |-> rm.fetches]]
              : rm \in {remote_metadata(m, c, orig, rem, t)} })
    ELSE [outcome |-> "return",
          provider |-> [name |-> name, conf |-> WithIdpAttrs(set.conf)],
          settings |-> [set EXCEPT !.conf = WithIdpAttrs(set.conf)],
          memo |-> m, cache |-> c, origin |-> orig,
          reads |-> [settings |-> 1, cache |-> 0, remote |-> 0]]

\* get_allowed_idp_name(self, request)
get_allowed_idp_name(request) == name

\* is_email_needed(self, **kwargs)
is_email_needed == FALSE

\* Python's truth value of a model value
Truthy(v) ==
    CASE v.t = "none" -> FALSE
      [] v.t = "str" -> v.s # ""
      [] v.t = "int" -> v.s # "0"
      [] v.t = "bool" -> v.s = "True"
      [] OTHER -> v.items # <<>>

\* attrs.get(key)
DictGet(attrs, key) == IF key \in DOMAIN attrs THEN attrs[key] ELSE None

\* UserIdOf taking the last element of a list, uid[-1], for the first
UserIdOfLast(uid) ==
    IF uid.t = "list" /\ uid.items = <<>>
    THEN [outcome |-> "IndexError", value |-> None]
    ELSE Only({ IF ~Truthy(first) \/ first.t # "str"
                THEN [outcome |-> "NoAssociatedOID", value |-> None]
                ELSE [outcome |-> "return", value |-> first]
              : first \in {IF uid.t = "list" THEN uid.items[Len(uid.items)] ELSE uid} })

\* the part of get_user_id after uid = attrs.get(...)
UserIdOf(uid) ==
    IF uid.t = "list" /\ uid.items = <<>>
    THEN [outcome |-> "IndexError", value |-> None]
    ELSE Only({ IF ~Truthy(first) \/ first.t # "str"
                THEN [outcome |-> "NoAssociatedOID", value |-> None]
                ELSE [outcome |-> "return", value |-> first]
              : first \in {IF uid.t = "list" THEN uid.items[1] ELSE uid} })

\* get_user_id(self, details, response) at time t
get_user_id(details, response, set, m, c, orig, rem, t) ==
    Only({ (IF idp.outcome # "return"
            THEN [outcome |-> idp.outcome, value |-> None]
            ELSE UserIdOf(DictGet(response.attributes,
                                  idp.provider.conf.attrs.attr_user_permanent_id)))
           @@ [settings |-> idp.settings, memo |-> idp.memo, cache |-> idp.cache,
               origin |-> idp.origin, reads |-> idp.reads]
         : idp \in {get_idp(None, set, m, c, orig, rem, t)} })

-----------------------------------------------------------------------------
(* TurkuADFS.generate_saml_config *)

Bool(b) == [t |-> "bool", s |-> IF b THEN "True" ELSE "False", items |-> <<>>]

Tuple(items) == [t |-> "tuple", s |-> "", items |-> items]

\* generate_saml_config(self, idp), ret being what the superclass returned
generate_saml_config(ret) ==
    [ret EXCEPT !.security =
        SetItems(@, [wantAssertionsSigned |-> Tuple(<<Bool(TRUE)>>),
                     wantNameId |-> Bool(FALSE)])]

-----------------------------------------------------------------------------
(* The inputs of the calls *)

List(items) == [t |-> "list", s |-> "", items |-> items]

PyInt(digits) == [t |-> "int", s |-> digits, items |-> <<>>]

EmptyDict == [k \in {} |-> None]

\* values the permanent-identifier claim takes in a parsed assertion
ClaimValues ==
    {None, Str(""), Str("oid-1"), PyInt("7"), PyInt("0"),
     List(<<>>), List(<<Str("")>>), List(<<Str("oid-1")>>),
     List(<<Str("oid-2"), Str("oid-1")>>), List(<<PyInt("7")>>), List(<<None>>),
     List(<<List(<<>>)>>)}

\* other attributes of the assertion
OtherAttrs == {EmptyDict, [k \in {ATTR_EMAIL} |-> List(<<Str("oid-2")>>)]}

AttrMaps ==
    {SetItems(cp, ep) :
        cp \in {EmptyDict} \cup {[k \in {ATTR_USER_PERMANENT_ID} |-> v] : v \in ClaimValues},
        ep \in OtherAttrs}

Responses == {[attributes |-> a] : a \in AttrMaps}

DetailsSet == {[username |-> "amy"], [username |-> "oid-2"]}

IdpNames == {None, Str(name), Str("helsinki_adfs"), Str("")}

Requests == {"GET /login/", "POST /complete/"}

\* configurations the superclass's generate_saml_config returns
SuperConfigs ==
    {[strict |-> Bool(st), security |-> sec] :
        st \in BOOLEAN,
        sec \in {[authnRequestsSigned |-> Bool(FALSE), wantMessagesSigned |-> Bool(FALSE)],
                 [authnRequestsSigned |-> Bool(TRUE), wantAssertionsSigned |-> Bool(FALSE),
                  wantNameId |-> Bool(TRUE)]}}

\* an entry a deployment puts under ENABLED_IDPS['turku_adfs']
EnabledConf(attrs) ==
    [entity_id |-> "http://sts.turku.fi/adfs/services/trust",
     url |-> "https://sts.turku.fi/adfs/ls/",
     x509certMulti |-> [signing |-> <<"certB">>, encryption |-> <<>>],
     attrs |-> attrs]

\* the ENABLED_IDPS setting: without the provider, or with an entry for it
SettingsStates ==
    {[enabled |-> FALSE, conf |-> NoConf],
     [enabled |-> TRUE, conf |-> EnabledConf(NoAttrs)],
     [enabled |-> TRUE, conf |-> EnabledConf([attr_user_permanent_id |-> "urn:oid:custom"])]}

NewInst == [calls |-> 0, cacheReads |-> 0, fetches |-> 0]

-----------------------------------------------------------------------------
(* The state machine *)

Init ==
    /\ now = 0
    /\ remote \in RemoteStates
    /\ cache = EmptyCache
    /\ origin = -1
    /\ settings \in SettingsStates
    /\ memo = NoMemo
    /\ inst = NewInst
    /\ last = [op |-> "init", args |-> <<>>, outcome |-> "return", value |-> None,
               reads |-> NoReads]

\* time passes
Tick ==
    /\ now < MaxTicks * TickSeconds
    /\ now' = now + TickSeconds
    /\ UNCHANGED <<remote, cache, origin, settings, memo, inst, last>>

\* the metadata endpoint goes down, or comes back
EndpointChange ==
    /\ remote' = [remote EXCEPT !.up = ~@]
    /\ UNCHANGED <<now, cache, origin, settings, memo, inst, last>>

\* the framework constructs a backend for the next request
NewInstance ==
    /\ inst.calls > 0
    /\ memo' = NoMemo
    /\ inst' = NewInst
    /\ UNCHANGED <<now, remote, cache, origin, settings, last>>

Counted(r) ==
    [calls |-> inst.calls + 1, cacheReads |-> inst.cacheReads + r.cache,
     fetches |-> inst.fetches + r.remote]

\* self.remote_metadata is read
AccessRemoteMetadata ==
    /\ inst.calls < MaxCalls
    /\ \E r \in {remote_metadata(memo, cache, origin, remote, now)} :
           /\ cache' = r.cache
           /\ origin' = r.origin
           /\ memo' = r.memo
           /\ inst' = Counted([settings |-> 0, cache |-> r.cacheReads, remote |-> r.fetches])
           /\ last' = [op |-> "remote_metadata", args |-> [now |-> now, remote |-> remote],
                       outcome |-> r.outcome, value |-> r.value,
                       reads |-> [settings |-> 0, cache |-> r.cacheReads,
                                  remote |-> r.fetches]]
    /\ UNCHANGED <<now, remote, settings>>

\* find_valid_certificates(idp) is called on the parsed metadata document
FindValidCertificates ==
    /\ \E idp \in {parse_remote(metadata_url, remote).idp} :
         \E f \in {find_valid_certificates(idp, now)} :
           last' = [op |-> "find_valid_certificates", args |-> [now |-> now, idp |-> idp],
                    outcome |-> f.outcome, value |-> [certMulti |-> f.value, idp |-> f.idp],
                    reads |-> NoReads]
    /\ UNCHANGED <<now, remote, cache, origin, settings, memo, inst>>

GetIdp ==
    /\ inst.calls < MaxCalls
    /\ \E idp_name \in IdpNames :
         \E r \in {get_idp(idp_name, settings, memo, cache, origin, remote, now)} :
             /\ settings' = r.settings
             /\ memo' = r.memo
             /\ cache' = r.cache
             /\ origin' = r.origin
             /\ inst' = Counted(r.reads)
             /\ last' = [op |-> "get_idp",
                         args |-> [now |-> now, remote |-> remote, idp_name |-> idp_name],
                         outcome |-> r.outcome, value |-> r.provider, reads |-> r.reads]
    /\ UNCHANGED <<now, remote>>

GetAllowedIdpName ==
    /\ \E request \in Requests :
         last' = [op |-> "get_allowed_idp_name", args |-> [request |-> request],
                  outcome |-> "return", value |-> Str(get_allowed_idp_name(request)),
                  reads |-> NoReads]
    /\ UNCHANGED <<now, remote, cache, origin, settings, memo, inst>>

GetUserId ==
    /\ inst.calls < MaxCalls
    /\ \E details \in DetailsSet, response \in Responses :
         \E r \in {get_user_id(details, response, settings, memo, cache, origin, remote, now)} :
             /\ settings' = r.settings
             /\ memo' = r.memo
             /\ cache' = r.cache
             /\ origin' = r.origin
             /\ inst' = Counted(r.reads)
             /\ last' = [op |-> "get_user_id",
                         args |-> [response |-> response],
                         outcome |-> r.outcome, value |-> r.value, reads |-> r.reads]
    /\ UNCHANGED <<now, remote>>

GenerateSamlConfig ==
    /\ \E ret \in SuperConfigs :
         last' = [op |-> "generate_saml_config", args |-> [ret |-> ret],
                  outcome |-> "return", value |-> generate_saml_config(ret),
                  reads |-> NoReads]
    /\ UNCHANGED <<now, remote, cache, origin, settings, memo, inst>>

IsEmailNeeded ==
    /\ last' = [op |-> "is_email_needed", args |-> <<>>, outcome |-> "return",
                value |-> Bool(is_email_needed), reads |-> NoReads]
    /\ UNCHANGED <<now, remote, cache, origin, settings, memo, inst>>

\* the backend over time: the metadata endpoint, the cache and the clock
Next ==
    \/ Tick
    \/ EndpointChange
    \/ NewInstance
    \/ AccessRemoteMetadata
    \/ FindValidCertificates
    \/ GetIdp

Spec == Init /\ [][Next]_vars

\* the calls the framework makes on the backend while it handles requests
NextCalls ==
    \/ NewInstance
    \/ GetIdp
    \/ GetAllowedIdpName
    \/ GetUserId
    \/ GenerateSamlConfig
    \/ IsEmailNeeded

SpecCalls == Init /\ [][NextCalls]_vars

-----------------------------------------------------------------------------
(* Notions the properties are stated in *)

\* the certificate is within its validity period at time t
ValidAt(cert_b64, t) ==
    /\ CertInfo[cert_b64].not_valid_before <= t
    /\ t <= CertInfo[cert_b64].not_valid_after

HasValid(signing, t) == \E i \in 1..Len(signing) : ValidAt(signing[i], t)

\* the valid certificates of a list, in the order of the list
RECURSIVE ValidOnes(_, _)
ValidOnes(signing, t) ==
    IF signing = <<>> THEN <<>>
    ELSE IF ValidAt(Head(signing), t)
         THEN <<Head(signing)>> \o ValidOnes(Tail(signing), t)
         ELSE ValidOnes(Tail(signing), t)

PermanentId(response) == DictGet(response.attributes, ATTR_USER_PERMANENT_ID)

EmptyOrNotString(v) == v.t # "str" \/ v.s = ""

\* the permanent-identifier claim is missing, None, an empty string, an empty
\* list, a list whose first element is empty or no string, or no string
ClaimAbsent(response) ==
    LET v == PermanentId(response)
    IN  IF v.t = "list"
        THEN v.items = <<>> \/ EmptyOrNotString(v.items[1])
        ELSE EmptyOrNotString(v)

\* the response with every attribute but the permanent-identifier claim removed
ClaimOnly(response) ==
    [attributes |-> [k \in DOMAIN response.attributes \cap {ATTR_USER_PERMANENT_ID}
                        |-> response.attributes[k]]]

-----------------------------------------------------------------------------
(* Properties *)

\* C1: the IdP metadata is refreshed and cached for 24 hours: an access that
\* fetches a document holding a valid signing certificate leaves it in the
\* cache for 24 hours from the fetch, the cached document is served for at
\* most 24 hours after the fetch that obtained it, and an access later than
\* that fetches anew.
C1_CachedFor24Hours ==
    /\ (/\ last.op = "remote_metadata"
        /\ last.reads.remote = 1
        /\ last.args.remote.up
        /\ HasValid(last.args.remote.signing, last.args.now))
       => (/\ cache.present
           /\ origin = last.args.now
           /\ cache.expires = last.args.now + CACHE_TIMEOUT)
    /\ cache.present => cache.expires <= origin + CACHE_TIMEOUT
    /\ (last.op = "remote_metadata" /\ last.reads.cache = 1 /\ last.reads.remote = 0)
       => last.args.now <= origin + CACHE_TIMEOUT

\* C2: find_valid_certificates returns exactly the signing certificates that
\* are valid at the current time (not_valid_before <= now <= not_valid_after),
\* in the order of the input.
C2_OnlyValidCertificates ==
    last.op = "find_valid_certificates" =>
        /\ HasValid(last.args.idp.x509certMulti.signing, last.args.now)
           => last.outcome = "return"
        /\ last.outcome = "return"
           => last.value.certMulti.signing =
                  ValidOnes(last.args.idp.x509certMulti.signing, last.args.now)

\* C3: when the metadata holds no valid signing certificate, each of
\* find_valid_certificates, remote_metadata and get_idp ends in a friendly
\* error (a FriendlySocialAuthException subclass) and in no other error.
C3_FriendlyNoCertificate ==
    /\ (/\ last.op = "find_valid_certificates"
        /\ ~HasValid(last.args.idp.x509certMulti.signing, last.args.now))
       => last.outcome \in FriendlyErrors
    /\ (/\ last.op \in {"remote_metadata", "get_idp"}
        /\ last.reads.remote = 1
        /\ last.args.remote.up
        /\ ~HasValid(last.args.remote.signing, last.args.now))
       => last.outcome \in FriendlyErrors

\* C4: get_user_id raises NoAssociatedOID, and nothing else, whenever the
\* permanent-identifier claim is absent from the response; stated here for
\* the calls whose identity provider is configured under ENABLED_IDPS, where
\* get_idp() returns.
C4_AbsentClaimIsNoAssociatedOID ==
    (/\ last.op = "get_user_id"
     /\ settings.enabled
     /\ ClaimAbsent(last.args.response))
    => last.outcome = "NoAssociatedOID"

\* C5: a value get_user_id returns is a non-empty string, the
\* permanent-identifier claim itself (the string, or the first element of the
\* list), and the call's result is the same whatever the details argument and
\* the other attributes of the response are.
C5_UserIdIsTheClaim ==
    /\ (last.op = "get_user_id" /\ last.outcome = "return") =>
          LET v == PermanentId(last.args.response)
          IN  /\ last.value.t = "str"
              /\ last.value.s # ""
              /\ IF v.t = "list"
                 THEN v.items # <<>> /\ last.value = v.items[1]
                 ELSE last.value = v
    /\ \A details \in DetailsSet, response \in Responses :
          LET r == get_user_id(details, response, settings, memo, cache, origin,
                               remote, now)
              q == get_user_id([username |-> "amy"], ClaimOnly(response), settings, memo,
                               cache, origin, remote, now)
          IN  r.outcome = q.outcome /\ r.value = q.value

\* C5 witness: get_user_id has returned the first element of a list-valued
\* claim, the response holding another attribute as well
C5_Witness ==
    /\ last.op = "get_user_id"
    /\ last.outcome = "return"
    /\ PermanentId(last.args.response) = List(<<Str("oid-2"), Str("oid-1")>>)
    /\ ATTR_EMAIL \in DOMAIN last.args.response.attributes
    /\ last.value = Str("oid-2")

\* C6: get_idp(None) and get_idp('turku_adfs') do the same and name the
\* provider 'turku_adfs'; get_idp with another name raises before it reads the
\* settings, the cache or the endpoint; get_allowed_idp_name is 'turku_adfs'.
C6_SingleProvider ==
    /\ get_idp(None, settings, memo, cache, origin, remote, now)
       = get_idp(Str(name), settings, memo, cache, origin, remote, now)
    /\ (last.op = "get_idp" /\ last.outcome = "return")
       => (last.args.idp_name \in {None, Str(name)} /\ last.value.name = "turku_adfs")
    /\ (last.op = "get_idp" /\ last.args.idp_name \notin {None, Str(name)})
       => (last.outcome = "Exception" /\ last.reads = NoReads)
    /\ last.op = "get_allowed_idp_name" => last.value = Str("turku_adfs")

\* C6 witness: get_idp() without a name has returned the provider
C6_Witness ==
    /\ last.op = "get_idp"
    /\ last.args.idp_name = None
    /\ last.outcome = "return"
    /\ last.value.name = "turku_adfs"
    /\ last.value.conf.attrs.attr_user_permanent_id = ATTR_USER_PERMANENT_ID

\* C7: a call fetches the remote metadata only when 'turku_adfs' is not in
\* ENABLED_IDPS and the cache read missed, and the calls made on one backend
\* instance perform at most one cache read and at most one remote fetch;
\* stated here for an endpoint that is up and serves a valid signing
\* certificate.
C7_OneLoadPerInstance ==
    /\ (last.op \in {"get_idp", "get_user_id"} /\ last.reads.remote = 1)
       => (~settings.enabled /\ last.reads.cache = 1)
    /\ (remote.up /\ HasValid(remote.signing, now))
       => (inst.cacheReads <= 1 /\ inst.fetches <= 1)

\* C8: generate_saml_config returns the superclass configuration with
\* security.wantAssertionsSigned the boolean true, security.wantNameId the
\* boolean false and every other entry unchanged.
C8_SamlConfig ==
    last.op = "generate_saml_config" =>
        LET ret == last.args.ret
            out == last.value
        IN  /\ out.security.wantAssertionsSigned = Bool(TRUE)
            /\ out.security.wantNameId = Bool(FALSE)
            /\ out.strict = ret.strict
            /\ \A k \in DOMAIN ret.security \ {"wantAssertionsSigned", "wantNameId"} :
                  k \in DOMAIN out.security /\ out.security[k] = ret.security[k]
            /\ DOMAIN out.security
               = DOMAIN ret.security \cup {"wantAssertionsSigned", "wantNameId"}

\* C9: an evaluation of remote_metadata that ends in an error, read directly
\* or through get_idp, leaves the cache entry and its lifetime as they were.
C9_FailedLoadKeepsCache ==
    [][(/\ inst'.calls = inst.calls + 1
        /\ last'.op \in {"remote_metadata", "get_idp"}
        /\ last'.reads.cache = 1
        /\ last'.outcome # "return")
       => (cache' = cache /\ origin' = origin)]_vars

\* C9 witness: an access has fetched a document without a valid signing
\* certificate and ended in an error
C9_Witness ==
    /\ last.op = "remote_metadata"
    /\ last.reads.remote = 1
    /\ last.args.remote.up
    /\ last.outcome = "Exception"

====
